---------------------------- MODULE Spec2Model ----------------------------
(***************************************************************************)
(* Model of app.py, the CPRF data-quality checker: one run of the script   *)
(* (filter, annotate, summarise, export, count) and its helper functions.  *)
(*                                                                         *)
(* Text is modelled as a sequence of one-character strings, so that strip, *)
(* upper, lower and the regular expressions do what the code does.  A cell *)
(* of a data frame is NA (<<>>) or <<text>>.                               *)
(***************************************************************************)
EXTENDS Integers, Sequences, FiniteSets, TLC

\* ------------------------------------------------------------------ bounds
\* Largest number of rows of the uploaded main file.
MaxRows == 2
\* Largest length of a freely chosen name given to safe_filename.
MaxNameLen == 2
\* Largest number of rows of a freely chosen frame given to apply_issue_coloring.
MaxSheetRows == 1
\* Largest number of records of a freely chosen filtered set given to the summary.
MaxSummaryRows == 4
MaxDobLen == 5

\* ------------------------------------------------------------------ text
\* The characters of a string literal, as a sequence.
Chars(s) == [i \in 1..Len(s) |-> SubSeq(s, i, i)]

\* n copies of the character c.
Rep(c, n) == [i \in 1..n |-> c]

NA == <<>>
S(str) == <<Chars(str)>>
IsNA(v) == v = NA

LowerLetters == Chars("abcdefghijklmnopqrstuvwxyz")
UpperLetters == Chars("ABCDEFGHIJKLMNOPQRSTUVWXYZ")
Digits == {"0", "1", "2", "3", "4", "5", "6", "7", "8", "9"}
\* A letter outside ASCII (U+00E9) and a numeric character that is neither a
\* letter nor a decimal digit (U+00BD): both are alphanumeric for str.isalnum().
NonAsciiLetters == {"U+00E9"}
OtherNumerics == {"U+00BD"}
Range(f) == {f[i] : i \in DOMAIN f}
Letters == Range(LowerLetters) \cup Range(UpperLetters) \cup NonAsciiLetters

\* str.isspace(): what str.strip() removes and the pattern \s matches.
Whitespace == {" ", "\t", "\n"}

\* The pattern \w of a str pattern: alphanumeric (str.isalnum()) or underscore.
IsWordChar(c) == c \in Letters \cup Digits \cup OtherNumerics \cup {"_"}

SetMin(I) == CHOOSE i \in I : \A j \in I : i <= j
SetMax(I) == CHOOSE i \in I : \A j \in I : j <= i

\* str.strip()
Strip(s) ==
    LET keep == {i \in 1..Len(s) : s[i] \notin Whitespace}
    IN  IF keep = {} THEN <<>> ELSE SubSeq(s, SetMin(keep), SetMax(keep))

UpperChar(c) ==
    IF \E i \in 1..26 : LowerLetters[i] = c
    THEN UpperLetters[CHOOSE i \in 1..26 : LowerLetters[i] = c]
    ELSE c

LowerChar(c) ==
    IF \E i \in 1..26 : UpperLetters[i] = c
    THEN LowerLetters[CHOOSE i \in 1..26 : UpperLetters[i] = c]
    ELSE c

\* str.upper() and str.lower()
Upper(s) == [i \in 1..Len(s) |-> UpperChar(s[i])]
Lower(s) == [i \in 1..Len(s) |-> LowerChar(s[i])]

\* series.fillna("").astype(str).str.strip(), on one cell
FillStrip(v) == IF IsNA(v) THEN <<>> ELSE Strip(v[1])

\* ------------------------------------------------------------------ safe_filename
MaxFileNameLen == 150
UnknownProgramLaunch == Chars("UnknownProgramLaunch")

\* re.sub(r"[^\w\-\s]", "_", name)
ReplaceUnsafe(s) ==
    [i \in 1..Len(s) |->
        IF IsWordChar(s[i]) \/ s[i] = "-" \/ s[i] \in Whitespace THEN s[i] ELSE "_"]

\* re.sub(r"\s+", "_", name): each maximal run of whitespace becomes one "_"
\* (the first character of a run is kept as "_", the rest of the run dropped)
CollapseWhitespace(s) ==
    LET kept == SelectSeq([i \in 1..Len(s) |-> i],
                          LAMBDA i : s[i] \notin Whitespace \/ i = 1
                                     \/ s[i - 1] \notin Whitespace)
    IN  [j \in 1..Len(kept) |-> IF s[kept[j]] \in Whitespace THEN "_" ELSE s[kept[j]]]

\* name[:150]
Truncate(s) == SubSeq(s, 1, IF Len(s) < MaxFileNameLen THEN Len(s) ELSE MaxFileNameLen)

\* str(name) of a group key that is not a str: pandas' NA prints as "<NA>"
StrOfKey(k) == IF IsNA(k) THEN Chars("<NA>") ELSE k[1]

\* A faulty variant of safe_filename: the result is not cut to 150 characters.
safe_filename_no_truncate(k) ==
    LET name == CollapseWhitespace(ReplaceUnsafe(Strip(StrOfKey(k))))
    IN  IF name = <<>> THEN UnknownProgramLaunch ELSE name

safe_filename(k) ==
    LET name == CollapseWhitespace(ReplaceUnsafe(Strip(StrOfKey(k))))
    IN  Truncate(IF name = <<>> THEN UnknownProgramLaunch ELSE name)

\* ------------------------------------------------------------------ quality rules
\* The labels of the derived columns, as cells.
LblMissing == S("Missing")
LblAvailable == S("Available")
\* The en dash of this label is written "-" here.
LblDobFlag == S("Flag - DOB is 1 Jan")
LblPhoneInvalid == S("Missing/Invalid")
LblPhoneValid == S("Valid")
LblCasteNotKnown == S("Caste not known")
LblCasteNotDisclosed == S("Caste not disclosed")
LblCasteFlag == S("Caste not known/disclosed")
LblEmpty == S("")
DontKnow == Chars("DONT KNOW")
DontWish == Chars("DONT WISH")
NullText == Chars("NULL")

\* A faulty variant of UdiseFlag: only an absent identifier is labelled missing.
UdiseFlagNaOnly(v) == IF IsNA(v) THEN LblMissing ELSE LblAvailable

\* 1) UDISE_Missing(Yes/No)
UdiseFlag(v) == IF FillStrip(v) = <<>> THEN LblMissing ELSE LblAvailable

\* 2) Check Child School Name and 6) Check Parent Consent: blank or "null"
NullOrBlankFlag(v) ==
    LET t == FillStrip(v)
    IN  IF t = <<>> \/ Upper(t) = NullText THEN LblMissing ELSE LblAvailable

\* The pattern 0?1[-/ ]0?1[-/] matched at position i of s; a and b say whether
\* each optional "0" is taken.
DobMatchAt(s, i) ==
    \E a \in {0, 1}, b \in {0, 1} :
        /\ i + a + b + 3 <= Len(s)
        /\ (a = 1 => s[i] = "0")
        /\ s[i + a] = "1"
        /\ s[i + a + 1] \in {"-", "/", " "}
        /\ (b = 1 => s[i + a + 2] = "0")
        /\ s[i + a + b + 2] = "1"
        /\ s[i + a + b + 3] \in {"-", "/"}

\* \b before a word character: the start of the text or after a non-word character
WordBoundaryBefore(s, i) == i = 1 \/ ~IsWordChar(s[i - 1])

\* 3) Check Date Of Birth: str.contains(r"\b0?1[-/ ]0?1[-/]") searches the whole text
DobFlag(v) ==
    LET t == FillStrip(v)
    IN  IF \E i \in 1..Len(t) : WordBoundaryBefore(t, i) /\ DobMatchAt(t, i)
        THEN LblDobFlag ELSE LblEmpty

\* str.replace(r"\D", "", regex=True)
OnlyDigits(s) == SelectSeq(s, LAMBDA c : c \in Digits)

\* str.match(r"^[6-9]\d{9}$")
ValidMobile(d) == Len(d) = 10 /\ d[1] \in {"6", "7", "8", "9"}

\* 4) Check Phone Number
PhoneFlag(v) ==
    LET digits == OnlyDigits(FillStrip(v))
    IN  IF digits = <<>> \/ ~ValidMobile(digits) THEN LblPhoneInvalid ELSE LblPhoneValid

\* 5) CASTE_Interpretation and Check Caste
CasteInterpretation(v) ==
    LET u == Upper(FillStrip(v))
    IN  IF u = DontKnow THEN LblCasteNotKnown
        ELSE IF u = DontWish THEN LblCasteNotDisclosed
        ELSE LblEmpty

CasteFlag(v) ==
    IF Upper(FillStrip(v)) \in {DontKnow, DontWish} THEN LblCasteFlag ELSE LblEmpty

\* ------------------------------------------------------------------ data frames
\* A frame is [columns: sequence of column names, rows: sequence of rows], a row a
\* function from the frame's column names to cells, and src the rows' places in the
\* uploaded file (the frame's index, which filtering keeps).
ColCategory == "PROGRAMSUBTYPENAME"
ColUdise == "School UDISE"
ColKey == "ProgramLaunchName"
ColSchool == "Child School Name"
ColDob == "DATE OF BIRTH"
ColPhone == "CONTACTNUMBER"
ColCaste == "CASTE"
ColConsent == "Parent Consent"

HasCol(df, c) == \E i \in 1..Len(df.columns) : df.columns[i] = c

\* df[mask]: the rows at the places in keep, in their order
SelectIdx(seq, keep) ==
    LET kept == SelectSeq([i \in 1..Len(seq) |-> i], LAMBDA i : i \in keep)
    IN  [j \in 1..Len(kept) |-> seq[kept[j]]]

FilterRows(df, keep) ==
    [df EXCEPT !.rows = SelectIdx(df.rows, keep), !.src = SelectIdx(df.src, keep)]

StripCell(v) == IF IsNA(v) THEN NA ELSE <<Strip(v[1])>>

\* df[c] = df[c].str.strip(), cell by cell
StripCol(df, c) ==
    [df EXCEPT !.rows = [i \in 1..Len(df.rows) |-> [df.rows[i] EXCEPT ![c] = StripCell(@)]]]


\* ------------------------------------------------------------------ annotate
FlagUdise == "UDISE_Missing(Yes/No)"
FlagSchool == "Check Child School Name"
FlagDob == "Check Date Of Birth"
FlagPhone == "Check Phone Number"
CasteInterp == "CASTE_Interpretation"
FlagCaste == "Check Caste"
FlagConsent == "Check Parent Consent"

\* The value a derived column takes from the cell of its source column.
RuleValue(new, v) ==
    CASE new = FlagUdise -> UdiseFlag(v)
      [] new = FlagSchool -> NullOrBlankFlag(v)
      [] new = FlagDob -> DobFlag(v)
      [] new = FlagPhone -> PhoneFlag(v)
      [] new = CasteInterp -> CasteInterpretation(v)
      [] new = FlagCaste -> CasteFlag(v)
      [] new = FlagConsent -> NullOrBlankFlag(v)

\* df[new] = rule(df[c]): a derived column, appended unless it is there already
AddCol(df, new, c) ==
    [df EXCEPT
        !.columns = IF HasCol(df, new) THEN @ ELSE Append(@, new),
        !.rows = [i \in 1..Len(df.rows) |->
                    [k \in DOMAIN df.rows[i] \cup {new} |->
                        IF k = new THEN RuleValue(new, df.rows[i][c])
                        ELSE df.rows[i][k]]]]

\* A rule is skipped when its source column is absent.
AddColIf(df, new, c) == IF HasCol(df, c) THEN AddCol(df, new, c) ELSE df

\* The data-quality columns, added in the code's order, each only when its source
\* column is there.
Annotate(df) ==
    LET d1 == AddColIf(df, FlagUdise, ColUdise)
        d2 == AddColIf(d1, FlagSchool, ColSchool)
        d3 == AddColIf(d2, FlagDob, ColDob)
        d4 == AddColIf(d3, FlagPhone, ColPhone)
        d5 == AddColIf(d4, CasteInterp, ColCaste)
        d6 == AddColIf(d5, FlagCaste, ColCaste)
    IN  AddColIf(d6, FlagConsent, ColConsent)

\* ------------------------------------------------------------------ apply_issue_coloring
\* A worksheet is [header, body, fills]: row 1 is the header, row r >= 2 is
\* body[r - 1], and fills maps the styled cells <<row, column>> to their colour.
Red == "FF0D0D"
Yellow == "FFFF66"

\* The flag columns with the original column each implicates and the label that
\* counts as an issue ("Check Caste" counts whenever it is not empty).
IssueRules ==
    << [flag |-> FlagUdise, col |-> ColUdise, eq |-> TRUE, label |-> LblMissing],
       [flag |-> FlagSchool, col |-> ColSchool, eq |-> TRUE, label |-> LblMissing],
       [flag |-> FlagDob, col |-> ColDob, eq |-> TRUE, label |-> LblDobFlag],
       [flag |-> FlagPhone, col |-> ColPhone, eq |-> TRUE, label |-> LblPhoneInvalid],
       [flag |-> FlagCaste, col |-> ColCaste, eq |-> FALSE, label |-> LblEmpty],
       [flag |-> FlagConsent, col |-> ColConsent, eq |-> TRUE, label |-> LblMissing] >>

\* masks: a rule has a mask only when its flag column and its original column are
\* both in the frame.
Masks(df) == {k \in 1..Len(IssueRules) :
                 HasCol(df, IssueRules[k].flag) /\ HasCol(df, IssueRules[k].col)}

MaskAt(df, k, i) ==
    LET r == IssueRules[k]
    IN  IF r.eq THEN df.rows[i][r.flag] = r.label ELSE df.rows[i][r.flag] # r.label

\* issue_cols of row i (counted from 1)
IssueCols(df, i) == {IssueRules[k].col : k \in {m \in Masks(df) : MaskAt(df, m, i)}}

ColIndex(df, c) == CHOOSE j \in 1..Len(df.columns) : df.columns[j] = c

\* A faulty variant of ChooseFill: the red tier starts at two issues.
ChooseFillFromTwo(issue_count) == IF issue_count > 1 THEN Red ELSE Yellow

\* fill = red_fill if issue_count > 2 else yellow_fill
ChooseFill(issue_count) == IF issue_count > 2 THEN Red ELSE Yellow

\* A faulty variant of StyledCells: the whole row of a record with issues is styled.
StyledCellsWholeRow(df) ==
    {<<1 + i, j>> : i \in {n \in 1..Len(df.rows) : IssueCols(df, n) # {}},
                    j \in 1..Len(df.columns)}

\* The cells the loop styles: data row i is Excel row 2 + (i - 1).
StyledCells(df) ==
    UNION {{<<1 + i, ColIndex(df, c)>> : c \in IssueCols(df, i)} : i \in 1..Len(df.rows)}

apply_issue_coloring(ws, data_df) ==
    [ws EXCEPT !.fills =
        [cell \in (DOMAIN ws.fills) \cup StyledCells(data_df) |->
            IF cell \in StyledCells(data_df)
            THEN ChooseFill(Cardinality(IssueCols(data_df, cell[1] - 1)))
            ELSE ws.fills[cell]]]

\* ------------------------------------------------------------------ export
\* The footer's text; the timestamp is not modelled.
FooterText == S("Filter: Report created on <now>, Checks: <checks_str>")

BlankRow(df) == [c \in Range(df.columns) |-> LblEmpty]
FooterRow(df) == [c \in Range(df.columns) |-> IF c = df.columns[1] THEN FooterText ELSE LblEmpty]

\* pd.concat([df, blank, footer]).to_excel(writer, index=False); src keeps the
\* data rows' places in the upload.
ToExcel(df) ==
    [header |-> df.columns,
     body |-> df.rows \o <<BlankRow(df), FooterRow(df)>>,
     src |-> df.src,
     fills |-> <<>>]

\* The sheet as saved: written, then coloured from the frame without its footer.
Worksheet(df) == apply_issue_coloring(ToExcel(df), df)


\* ------------------------------------------------------------------ groupby and summary
\* Code-point order of the characters that occur in group keys; the characters
\* outside ASCII come after all of these.
CodeOrder ==
    Chars("\t\n -/0123456789<>ABCDEFGHIJKLMNOPQRSTUVWXYZ_abcdefghijklmnopqrstuvwxyz")

CharRank(c) ==
    IF \E i \in 1..Len(CodeOrder) : CodeOrder[i] = c
    THEN CHOOSE i \in 1..Len(CodeOrder) : CodeOrder[i] = c
    ELSE Len(CodeOrder) + 1

\* a < b for two texts, as Python compares str
LexLess(a, b) ==
    \/ \E i \in 1..(IF Len(a) < Len(b) THEN Len(a) ELSE Len(b)) :
          /\ CharRank(a[i]) < CharRank(b[i])
          /\ \A j \in 1..(i - 1) : a[j] = b[j]
    \/ /\ Len(a) < Len(b)
       /\ \A j \in 1..Len(a) : a[j] = b[j]

\* The order of the group keys: texts in ascending order, NA last.
KeyLess(k1, k2) ==
    IF IsNA(k1) THEN FALSE ELSE IF IsNA(k2) THEN TRUE ELSE LexLess(k1[1], k2[1])

RECURSIVE SortKeys(_)
SortKeys(keys) ==
    IF keys = {} THEN <<>>
    ELSE LET least == CHOOSE k \in keys : \A o \in keys \ {k} : KeyLess(k, o)
         IN  <<least>> \o SortKeys(keys \ {least})

KeysOf(df) == {df.rows[i][ColKey] : i \in 1..Len(df.rows)}

\* missing_df.groupby("ProgramLaunchName", dropna=False): one group per distinct
\* key, NA being a key of its own, in the keys' sorted order (sort=True).
GroupBy(df) ==
    LET keys == SortKeys(KeysOf(df))
    IN  [g \in 1..Len(keys) |->
            [key |-> keys[g],
             df |-> FilterRows(df, {i \in 1..Len(df.rows) : df.rows[i][ColKey] = keys[g]})]]

\* .size().reset_index(name="Missing_UDISE_Count")
GroupSizes(df) ==
    LET groups == GroupBy(df)
    IN  [g \in 1..Len(groups) |-> [key |-> groups[g].key, count |-> Len(groups[g].df.rows)]]

RowOrders(n) == {p \in [1..n -> 1..n] : \A i, j \in 1..n : p[i] = p[j] => i = j}

\* A faulty variant of SortValuesDescending: the sort is ascending.
SortValuesAscending(sizes) ==
    {[i \in 1..Len(sizes) |-> sizes[p[i]]] : p \in
        {q \in RowOrders(Len(sizes)) :
            \A i \in 1..(Len(sizes) - 1) : sizes[q[i]].count <= sizes[q[i + 1]].count}}

\* .sort_values("Missing_UDISE_Count", ascending=False): the default kind,
\* "quicksort", is not a stable sort, so every order of the rows in which the
\* counts do not increase is a possible result.
SortValuesDescending(sizes) ==
    {[i \in 1..Len(sizes) |-> sizes[p[i]]] : p \in
        {q \in RowOrders(Len(sizes)) :
            \A i \in 1..(Len(sizes) - 1) : sizes[q[i]].count >= sizes[q[i + 1]].count}}

\* ------------------------------------------------------------------ filter list
\* The filter file is a frame whose rows are sequences of cells, one per column,
\* and whose column names are texts.
ProgramLaunchNameLower == Chars("programlaunchname")

\* dict.fromkeys(values): the first occurrence of each value, in order
Dedupe(seq) ==
    LET kept == SelectSeq([i \in 1..Len(seq) |-> i],
                          LAMBDA i : \A j \in 1..(i - 1) : seq[j] # seq[i])
    IN  [j \in 1..Len(kept) |-> seq[kept[j]]]

get_programlaunch_list_from_file(file) ==
    IF Len(file.rows) = 0 \/ Len(file.columns) = 0 THEN <<>>
    ELSE LET named == {c \in 1..Len(file.columns) :
                          Lower(Strip(file.columns[c])) = ProgramLaunchNameLower}
             col == IF named # {} THEN SetMin(named) ELSE 1
             cells == SelectSeq([i \in 1..Len(file.rows) |-> file.rows[i][col]],
                                LAMBDA v : ~IsNA(v))
             values == SelectSeq([i \in 1..Len(cells) |-> Strip(cells[i][1])],
                                 LAMBDA v : v # <<>>)
         IN  Dedupe(values)

\* series.isin(pl_filter_list), on one cell
IsIn(v, list) == ~IsNA(v) /\ \E i \in 1..Len(list) : list[i] = v[1]


\* ------------------------------------------------------------------ run counter
\* The counter file holds a number, or is missing or unreadable.
NoCounterFile == -1
CounterFiles == {NoCounterFile, 3}

get_run_counter(file) == IF file = NoCounterFile THEN 0 ELSE file

\* A faulty variant of increment_run_counter: the counter moves by two.
increment_run_counter_twice(file) == get_run_counter(file) + 2

\* The file's new content.
increment_run_counter(file) == get_run_counter(file) + 1

\* ------------------------------------------------------------------ inputs
BaseColumns ==
    <<ColUdise, ColCategory, ColKey, ColSchool, ColDob, ColPhone, ColCaste, ColConsent>>
Sentinel == Chars("ADOLOSCENT")

Without(cols, drop) == SelectSeq(cols, LAMBDA c : c \notin drop)

\* The column sets of the uploaded files: all columns, two rule columns absent,
\* and one required column absent.
ColumnSets ==
    { BaseColumns,
      Without(BaseColumns, {ColDob, ColCaste}),
      Without(BaseColumns, {ColCategory}),
      Without(BaseColumns, {ColUdise}),
      Without(BaseColumns, {ColKey}) }

Row(udise, cat, key, school, dob, phone, caste, consent) ==
    (ColUdise :> udise) @@ (ColCategory :> cat) @@ (ColKey :> key)
    @@ (ColSchool :> school) @@ (ColDob :> dob) @@ (ColPhone :> phone)
    @@ (ColCaste :> caste) @@ (ColConsent :> consent)

\* A record with one issue (the missing UDISE) under the given key.
Clean(key) ==
    Row(NA, S("ADOLOSCENT"), key, S("GHS Town"), S("15-01-1990"), S("9876543210"),
        S("OBC"), S("Yes"))

\* The rows an uploaded file is made of.
InputRows ==
    { Clean(S("A B")), Clean(S("ALL CPRF issues")), Clean(NA), Clean(S(" ")),
      Row(S("  "), S(" adoloscent "), S(" A_B "), S("null"), S("01-01-1990"),
          S("+91 98765-43210"), S("Dont Know"), NA),
      Row(NA, S("CHILD"), S("A B"), NA, S("1/1/2001"), S("9876543210"), S("OBC"), S("Yes")),
      Row(S("29010100101"), S("ADOLOSCENT"), S("A B"), S("GHS Town"), S("15-01-1990"),
          S("9876543210"), S("OBC"), S("Yes")),
      Row(NA, NA, S("A_B"), S("GHS Town"), S("15-01-1990"), NA, S("dont wish"), S("Yes")) }

RECURSIVE SeqsUpTo(_, _)
SeqsUpTo(set, n) ==
    IF n = 0 THEN {<<>>}
    ELSE LET shorter == SeqsUpTo(set, n - 1)
         IN  shorter \cup {Append(s, x) : s \in {q \in shorter : Len(q) = n - 1}, x \in set}

Project(row, cols) == [c \in Range(cols) |-> row[c]]

\* pd.read_excel(file, dtype="string"): every cell is a text or NA
MainFiles ==
    {[columns |-> cols,
      rows |-> [i \in 1..Len(rs) |-> Project(rs[i], cols)],
      src |-> [i \in 1..Len(rs) |-> i]] : cols \in ColumnSets, rs \in SeqsUpTo(InputRows, MaxRows)}

NoFrame == [columns |-> <<>>, rows |-> <<>>, src |-> <<>>]

\* The filter files: none uploaded; no rows; a named column with padding, a gap
\* and a repeat; a first column with no usable value; a first column naming no
\* key of the data.
NoFilterFile == [present |-> FALSE, columns |-> <<>>, rows |-> <<>>]
FilterFiles ==
    { NoFilterFile,
      [present |-> TRUE, columns |-> <<Chars("Names")>>, rows |-> <<>>],
      [present |-> TRUE,
       columns |-> <<Chars("Region"), Chars(" ProgramLaunchName ")>>,
       rows |-> << <<S("North"), S(" A_B ")>>, <<S("A B"), NA>>,
                   <<S("South"), S("A_B")>>, <<NA, S("ALL CPRF issues")>> >>],
      [present |-> TRUE, columns |-> <<Chars("Names")>>,
       rows |-> << <<S("  ")>>, <<NA>> >>],
      [present |-> TRUE, columns |-> <<Chars("Names")>>,
       rows |-> << <<S("Elsewhere")>> >>] }

\* ------------------------------------------------------------------ state
VARIABLES
    pc,                 \* where the run is
    uploaded_file,      \* whether a main file was uploaded
    df,                 \* the main file as loaded
    filter_uploaded,    \* whether a filter file was uploaded, once the run has looked
    pl_filter_list,     \* the resolved allow-list
    missing_df,         \* the filtered, then annotated, records
    summary_df,         \* the summary table shown
    groups,             \* the groupby the export loop walks
    next_group,         \* the loop's position in groups
    disk,               \* the output folder: file name -> worksheet
    zip,                \* the archive's entries, in the order written
    saved_files,        \* the paths reported
    messages,           \* st.error / st.warning / st.info calls, in order
    counter_file,       \* run_counter.txt
    initial_run_count,  \* the counter read when the script started
    download_offered,   \* whether the download button was shown
    probe               \* the call under test of the helper specifications

vars == <<pc, uploaded_file, df, filter_uploaded, pl_filter_list, missing_df, summary_df,
          groups, next_group, disk, zip, saved_files, messages, counter_file,
          initial_run_count, download_offered, probe>>

Idle == [op |-> "none"]
CombinedName == Chars("ALL_CPRF_issues")

Init ==
    /\ pc = "start"
    /\ uploaded_file \in BOOLEAN
    /\ df \in (IF uploaded_file THEN MainFiles ELSE {NoFrame})
    /\ filter_uploaded = FALSE
    /\ pl_filter_list = <<>>
    /\ missing_df = NoFrame
    /\ summary_df = <<>>
    /\ groups = <<>>
    /\ next_group = 0
    /\ disk = <<>>
    /\ zip = <<>>
    /\ saved_files = <<>>
    /\ messages = <<>>
    /\ counter_file \in CounterFiles
    /\ initial_run_count = get_run_counter(counter_file)
    /\ download_offered = FALSE
    /\ probe = Idle

Say(kind, what) == messages' = Append(messages, <<kind, what>>)

\* A faulty variant of IsEmptyFrame: no frame counts as empty.
IsEmptyFrameNever(d) == FALSE

\* missing_df.empty
IsEmptyFrame(d) == Len(d.rows) = 0

\* A faulty variant of RequiredColumns: the grouping key is not required.
RequiredColumnsWithoutKey == {ColCategory, ColUdise}

\* required_cols
RequiredColumns == {ColCategory, ColUdise, ColKey}

\* The run button, the load and the two column checks (lines 249-340).
RunButton ==
    /\ pc = "start"
    /\ IF ~uploaded_file
       THEN /\ Say("error", "no main file")
            /\ pc' = "error"
       ELSE IF \E c \in RequiredColumns : ~HasCol(df, c)
       THEN /\ messages' = (IF \E c \in Range(BaseColumns) : ~HasCol(df, c)
                            THEN <<<<"warning", "expected columns missing">>>> ELSE <<>>)
                           \o <<<<"error", "required columns missing">>>>
            /\ pc' = "error"
       ELSE /\ messages' = (IF \E c \in Range(BaseColumns) : ~HasCol(df, c)
                            THEN <<<<"warning", "expected columns missing">>>> ELSE <<>>)
            /\ pc' = "filter"
    /\ UNCHANGED <<uploaded_file, df, filter_uploaded, pl_filter_list, missing_df, summary_df,
                   groups, next_group, disk, zip, saved_files, counter_file,
                   initial_run_count, download_offered, probe>>

\* df["PROGRAMSUBTYPENAME"].str.upper() == "ADOLOSCENT" (NA compares as not equal)
CategoryMask(d) ==
    {i \in 1..Len(d.rows) :
        ~IsNA(d.rows[i][ColCategory]) /\ Upper(d.rows[i][ColCategory][1]) = Sentinel}

\* A faulty variant of MissingMask: a blank identifier is not counted as missing.
MissingMaskNaOnly(d) == {i \in 1..Len(d.rows) : IsNA(d.rows[i][ColUdise])}

\* udise_col.isna() | udise_col.str.strip().eq("")
MissingMask(d) ==
    {i \in 1..Len(d.rows) : IsNA(d.rows[i][ColUdise]) \/ Strip(d.rows[i][ColUdise][1]) = <<>>}

\* The key columns cleaned in place (lines 342-343).
CleanKeyColumns(d) == StripCol(StripCol(d, ColCategory), ColKey)

\* The category filter and the missing-identifier filter (lines 341-359).
FilterMissingUdise ==
    /\ pc = "filter"
    /\ LET cleaned == CleanKeyColumns(df)
           adol == FilterRows(cleaned, CategoryMask(cleaned))
           missing == FilterRows(adol, MissingMask(adol))
       IN  /\ df' = cleaned
           /\ missing_df' = missing
           /\ IF IsEmptyFrame(missing)
              THEN /\ Say("info", "no rows with missing UDISE")
                   /\ pc' = "nothing to export"
              ELSE /\ pc' = "filter list"
                   /\ UNCHANGED messages
    /\ UNCHANGED <<uploaded_file, filter_uploaded, pl_filter_list, summary_df, groups,
                   next_group, disk, zip, saved_files, counter_file, initial_run_count,
                   download_offered, probe>>

\* missing_df after the optional ProgramLaunchName filter (lines 362-378)
ApplyFilterList(d, file, list) ==
    IF ~file.present \/ list = <<>> THEN d
    ELSE FilterRows(d, {i \in 1..Len(d.rows) : IsIn(d.rows[i][ColKey], list)})

\* The optional filter by the second file (lines 361-389).  Which filter file was
\* uploaded is read here for the first time, so it is chosen here.
FilterByProgramLaunch ==
    /\ pc = "filter list"
    /\ \E file \in FilterFiles :
        LET list == IF file.present THEN get_programlaunch_list_from_file(file) ELSE <<>>
            kept == ApplyFilterList(missing_df, file, list)
        IN  /\ filter_uploaded' = file.present
            /\ pl_filter_list' = list
            /\ missing_df' = kept
            /\ IF file.present /\ list = <<>>
               THEN /\ Say("warning", "filter file gave no values")
                    /\ pc' = "annotate"
               ELSE IF IsEmptyFrame(kept)
               THEN /\ Say("info", "no rows after ProgramLaunchName filter")
                    /\ pc' = "nothing to export"
               ELSE /\ pc' = "annotate"
                    /\ UNCHANGED messages
    /\ UNCHANGED <<uploaded_file, df, summary_df, groups, next_group, disk, zip,
                   saved_files, counter_file, initial_run_count, download_offered, probe>>

\* The data-quality columns (lines 395-492).
AnnotateRows ==
    /\ pc = "annotate"
    /\ missing_df' = Annotate(missing_df)
    /\ pc' = "summarise"
    /\ UNCHANGED <<uploaded_file, df, filter_uploaded, pl_filter_list, summary_df, groups,
                   next_group, disk, zip, saved_files, messages, counter_file,
                   initial_run_count, download_offered, probe>>

\* The summary table (lines 497-505).
Summarise ==
    /\ pc = "summarise"
    /\ summary_df' \in SortValuesDescending(GroupSizes(missing_df))
    /\ pc' = "output folder"
    /\ UNCHANGED <<uploaded_file, df, filter_uploaded, pl_filter_list, missing_df, groups,
                   next_group, disk, zip, saved_files, messages, counter_file,
                   initial_run_count, download_offered, probe>>


\* with pd.ExcelWriter(path) ...: the file of that name is created or replaced
WriteFile(d, name, ws) == [n \in (DOMAIN d) \cup {name} |-> IF n = name THEN ws ELSE d[n]]

\* A faulty variant of PrepareOutputFolder: the export goes on after the failure.
PrepareOutputFolderGoesOn ==
    /\ pc = "output folder"
    /\ \E mkdir_ok \in BOOLEAN :
        /\ groups' = GroupBy(missing_df)
        /\ pc' = "write combined"
        /\ IF mkdir_ok THEN UNCHANGED messages
           ELSE Say("error", "could not create output folder")
    /\ UNCHANGED <<uploaded_file, df, filter_uploaded, pl_filter_list, missing_df, summary_df,
                   next_group, disk, zip, saved_files, counter_file, initial_run_count,
                   download_offered, probe>>

\* The output folder (lines 507-529).  mkdir succeeds or raises.
PrepareOutputFolder ==
    /\ pc = "output folder"
    /\ \E mkdir_ok \in BOOLEAN :
        IF mkdir_ok
        THEN /\ groups' = GroupBy(missing_df)
             /\ pc' = "write combined"
             /\ UNCHANGED messages
        ELSE /\ Say("error", "could not create output folder")
             /\ pc' = "error"
             /\ UNCHANGED groups
    /\ UNCHANGED <<uploaded_file, df, filter_uploaded, pl_filter_list, missing_df, summary_df,
                   next_group, disk, zip, saved_files, counter_file, initial_run_count,
                   download_offered, probe>>

\* The combined file, to the folder and to the archive (lines 536-577); the
\* tabular writer succeeds or raises, and an exception ends the script.
WriteCombined ==
    /\ pc = "write combined"
    /\ \E write_ok \in BOOLEAN :
        IF write_ok
        THEN /\ disk' = WriteFile(disk, CombinedName, Worksheet(missing_df))
             /\ saved_files' = Append(saved_files, CombinedName)
             /\ zip' = Append(zip, [name |-> CombinedName, ws |-> Worksheet(missing_df)])
             /\ next_group' = 1
             /\ pc' = IF Len(groups) = 0 THEN "finish" ELSE "write groups"
             /\ UNCHANGED messages
        ELSE /\ Say("exception", "write failed")
             /\ pc' = "crashed"
             /\ UNCHANGED <<disk, saved_files, zip, next_group>>
    /\ UNCHANGED <<uploaded_file, df, filter_uploaded, pl_filter_list, missing_df, summary_df,
                   groups, counter_file, initial_run_count, download_offered, probe>>

\* One turn of the per-ProgramLaunchName loop (lines 581-616).
WriteGroup ==
    /\ pc = "write groups"
    /\ next_group <= Len(groups)
    /\ \E write_ok \in BOOLEAN :
        IF write_ok
        THEN LET g == groups[next_group]
                 safe_name == safe_filename(g.key)
             IN  /\ disk' = WriteFile(disk, safe_name, Worksheet(g.df))
                 /\ saved_files' = Append(saved_files, safe_name)
                 /\ zip' = Append(zip, [name |-> safe_name, ws |-> Worksheet(g.df)])
                 /\ next_group' = next_group + 1
                 /\ pc' = IF next_group = Len(groups) THEN "finish" ELSE "write groups"
                 /\ UNCHANGED messages
        ELSE /\ Say("exception", "write failed")
             /\ pc' = "crashed"
             /\ UNCHANGED <<disk, saved_files, zip, next_group>>
    /\ UNCHANGED <<uploaded_file, df, filter_uploaded, pl_filter_list, missing_df, summary_df,
                   groups, counter_file, initial_run_count, download_offered, probe>>

\* After the export: the counter, the report and the download (lines 619-642).
Finish ==
    /\ pc = "finish"
    /\ counter_file' = increment_run_counter(counter_file)
    /\ messages' = messages \o <<<<"info", "run count">>, <<"success", "exported">>>>
    /\ download_offered' = TRUE
    /\ pc' = "done"
    /\ UNCHANGED <<uploaded_file, df, filter_uploaded, pl_filter_list, missing_df, summary_df,
                   groups, next_group, disk, zip, saved_files, initial_run_count, probe>>

Next ==
    \/ RunButton
    \/ FilterMissingUdise
    \/ FilterByProgramLaunch
    \/ AnnotateRows
    \/ Summarise
    \/ PrepareOutputFolder
    \/ WriteCombined
    \/ WriteGroup
    \/ Finish

Spec == Init /\ [][Next]_vars

\* ------------------------------------------------------------------ the summary alone
\* The summary step applied to filtered sets of up to MaxSummaryRows records: the
\* states the run is in before the summary when every record of the upload
\* qualifies and no filter file is given.
SummaryRows == {Clean(S("A B")), Clean(S(" A_B ")), Clean(NA), Clean(S(" "))}

SummaryInputs ==
    {CleanKeyColumns([columns |-> BaseColumns, rows |-> rs,
                      src |-> [i \in 1..Len(rs) |-> i]]) :
        rs \in SeqsUpTo(SummaryRows, MaxSummaryRows) \ {<<>>}}

InitSummary ==
    /\ pc = "summarise"
    /\ uploaded_file = TRUE
    /\ df \in SummaryInputs
    /\ filter_uploaded = FALSE
    /\ pl_filter_list = <<>>
    /\ missing_df = Annotate(df)
    /\ summary_df = <<>>
    /\ groups = <<>>
    /\ next_group = 0
    /\ disk = <<>>
    /\ zip = <<>>
    /\ saved_files = <<>>
    /\ messages = <<>>
    /\ counter_file = NoCounterFile
    /\ initial_run_count = get_run_counter(counter_file)
    /\ download_offered = FALSE
    /\ probe = Idle

SpecSummary == InitSummary /\ [][Summarise]_vars

\* ------------------------------------------------------------------ the helpers alone
\* safe_filename and apply_issue_coloring applied to freely chosen arguments.
NameChars == {"a", "Z", "7", "_", "-", " ", "\t", "/", "U+00E9", "U+00BD"}
ShortNames == SeqsUpTo(NameChars, MaxNameLen)

\* Names around the length limit: 149 letters and a short tail.
LongNames == {Rep("a", MaxFileNameLen - 1) \o tail : tail \in ShortNames}

\* The group keys safe_filename is given: texts, and NA (not a str).
NameInputs == {<<n>> : n \in ShortNames \cup LongNames} \cup {NA}

FlagColumns == {FlagUdise, FlagSchool, FlagDob, FlagPhone, FlagCaste, FlagConsent}

\* Every combination of the rules' labels in the six flag columns.
FlagLabelsOfRules ==
    {(FlagUdise :> u) @@ (FlagSchool :> s) @@ (FlagDob :> d) @@ (FlagPhone :> p)
        @@ (FlagCaste :> c) @@ (FlagConsent :> k) :
        u \in {LblMissing, LblAvailable}, s \in {LblMissing, LblAvailable},
        d \in {LblDobFlag, LblEmpty}, p \in {LblPhoneInvalid, LblPhoneValid},
        c \in {LblCasteFlag, LblEmpty}, k \in {LblMissing, LblAvailable}}

\* An annotated frame's columns, for the column sets with all required columns.
AnnotatedColumnSets ==
    {Annotate([columns |-> cols, rows |-> <<>>, src |-> <<>>]).columns :
        cols \in {c \in ColumnSets : \A r \in RequiredColumns : r \in Range(c)}}

FlaggedRow(labels, cols) ==
    [c \in Range(cols) |->
        IF c \in FlagColumns THEN labels[c]
        ELSE IF c = CasteInterp THEN LblEmpty
        ELSE Clean(S("A B"))[c]]

\* The frames apply_issue_coloring is given: annotated columns, any labels.
FlaggedFrames ==
    {[columns |-> cols,
      rows |-> [i \in 1..Len(ls) |-> FlaggedRow(ls[i], cols)],
      src |-> [i \in 1..Len(ls) |-> i]] :
        cols \in AnnotatedColumnSets, ls \in SeqsUpTo(FlagLabelsOfRules, MaxSheetRows)}

\* The birth-date cells the rule is given: short texts of digits and separators,
\* and NA.
DobChars == {"0", "1", "9", "-", "/", " "}
DobInputs == {<<d>> : d \in SeqsUpTo(DobChars, MaxDobLen)} \cup {NA}

InitHelpers ==
    /\ pc = "helpers"
    /\ uploaded_file = FALSE
    /\ df = NoFrame
    /\ filter_uploaded = FALSE
    /\ pl_filter_list = <<>>
    /\ missing_df = NoFrame
    /\ summary_df = <<>>
    /\ groups = <<>>
    /\ next_group = 0
    /\ disk = <<>>
    /\ zip = <<>>
    /\ saved_files = <<>>
    /\ messages = <<>>
    /\ counter_file = NoCounterFile
    /\ initial_run_count = 0
    /\ download_offered = FALSE
    /\ probe \in {[op |-> "safe_filename", arg |-> k, called |-> FALSE] : k \in NameInputs}
            \cup {[op |-> "apply_issue_coloring", arg |-> f, called |-> FALSE] :
                    f \in FlaggedFrames}
            \cup {[op |-> "DobFlag", arg |-> d, called |-> FALSE] : d \in DobInputs}

PipelineVars ==
    <<pc, uploaded_file, df, filter_uploaded, pl_filter_list, missing_df, summary_df,
      groups, next_group, disk, zip, saved_files, messages, counter_file,
      initial_run_count, download_offered>>

CallSafeFilename ==
    /\ probe.op = "safe_filename"
    /\ ~probe.called
    /\ probe' = [op |-> probe.op, arg |-> probe.arg, called |-> TRUE,
                 result |-> safe_filename(probe.arg)]
    /\ UNCHANGED PipelineVars

CallApplyIssueColoring ==
    /\ probe.op = "apply_issue_coloring"
    /\ ~probe.called
    /\ probe' = [op |-> probe.op, arg |-> probe.arg, called |-> TRUE,
                 result |-> apply_issue_coloring(ToExcel(probe.arg), probe.arg)]
    /\ UNCHANGED PipelineVars

\* The birth-date rule applied to one cell (lines 421-435).
CallDobFlag ==
    /\ probe.op = "DobFlag"
    /\ ~probe.called
    /\ probe' = [op |-> probe.op, arg |-> probe.arg, called |-> TRUE,
                 result |-> DobFlag(probe.arg)]
    /\ UNCHANGED PipelineVars

NextHelpers ==
    \/ CallSafeFilename
    \/ CallApplyIssueColoring
    \/ CallDobFlag

SpecHelpers == InitHelpers /\ [][NextHelpers]_vars

\* ------------------------------------------------------------------ what the claims speak of
\* The conditions of a record of the uploaded file, in the claims' words.
CategoryMatches(i) ==
    /\ HasCol(df, ColCategory)
    /\ ~IsNA(df.rows[i][ColCategory])
    /\ Upper(Strip(df.rows[i][ColCategory][1])) = Sentinel

IdentifierMissing(i) ==
    /\ HasCol(df, ColUdise)
    /\ IsNA(df.rows[i][ColUdise]) \/ Strip(df.rows[i][ColUdise][1]) = <<>>

KeyAllowed(i) ==
    /\ HasCol(df, ColKey)
    /\ ~IsNA(df.rows[i][ColKey])
    /\ \E n \in 1..Len(pl_filter_list) : pl_filter_list[n] = Strip(df.rows[i][ColKey][1])

AllowListUsable == filter_uploaded /\ pl_filter_list # <<>>

MissingIdentifierRows == {i \in 1..Len(df.rows) : CategoryMatches(i) /\ IdentifierMissing(i)}

QualifyingRows == {i \in MissingIdentifierRows : AllowListUsable => KeyAllowed(i)}

FilterWarning == <<"warning", "filter file gave no values">>
Said(m) == \E n \in 1..Len(messages) : messages[n] = m
SaidKind(kind) == \E n \in 1..Len(messages) : messages[n][1] = kind

\* The run has gone past the optional allow-list filter and goes on.
PastFilterList ==
    pc \in {"annotate", "summarise", "output folder", "write combined", "write groups",
            "finish", "done"}

NoDuplicates(seq) == \A i, j \in 1..Len(seq) : seq[i] = seq[j] => i = j

\* The combined artifact is the archive's first entry, once it is written.
CombinedRowsAreQualifyingRows ==
    Len(zip) >= 1 =>
        /\ zip[1].name = CombinedName
        /\ Range(zip[1].ws.src) = QualifyingRows
        /\ NoDuplicates(zip[1].ws.src)
        /\ Len(zip[1].ws.body) = Len(zip[1].ws.src) + 2

\* C1 (as amended): the data rows of the combined artifact are exactly the input
\* records whose category equals the sentinel after trimming and ignoring case,
\* whose identifier is absent or empty after trimming, and, when an allow-list was
\* supplied and resolved to at least one value, whose trimmed grouping key is in
\* it.  When no allow-list is supplied the third condition is dropped without a
\* warning; when one is supplied and resolves to no usable value the condition is
\* dropped and the run goes on with a warning instead of stopping.
C1_CombinedRows ==
    /\ CombinedRowsAreQualifyingRows
    /\ (filter_uploaded /\ pl_filter_list = <<>>) =>
            (Said(FilterWarning) /\ pc # "nothing to export")
    /\ ~filter_uploaded => ~Said(FilterWarning)

\* C1 witness: a combined artifact written after a usable allow-list removed some
\* of the records with a missing identifier, others having failed the first two
\* conditions.
C1_Witness ==
    /\ Len(zip) >= 1
    /\ AllowListUsable
    /\ QualifyingRows # {}
    /\ QualifyingRows # MissingIdentifierRows

\* C1 (as claimed): the same rows, and a warning whenever the allow-list is absent
\* or resolves to no usable value.
C1_WarningWheneverNoAllowList ==
    /\ CombinedRowsAreQualifyingRows
    /\ (PastFilterList /\ ~AllowListUsable) => SaidKind("warning")

NoOutput ==
    /\ disk = <<>>
    /\ zip = <<>>
    /\ saved_files = <<>>
    /\ ~download_offered

RequiredColumnAbsent ==
    uploaded_file /\ \E c \in {ColCategory, ColUdise, ColKey} : ~HasCol(df, c)

\* C2: when the category, identifier or grouping-key column is absent, the run
\* only ever reaches the reported error state: nothing is filtered or annotated,
\* no summary is produced, nothing is written to the folder or the archive, and
\* the run counter stays as it was.
C2_RequiredColumnsAbort ==
    RequiredColumnAbsent =>
        /\ pc \in {"start", "error"}
        /\ pc = "error" => Said(<<"error", "required columns missing">>)
        /\ missing_df = NoFrame
        /\ summary_df = <<>>
        /\ NoOutput
        /\ get_run_counter(counter_file) = initial_run_count

\* C2 witness: the error state of a file with rows that lacks a required column.
C2_Witness == RequiredColumnAbsent /\ pc = "error" /\ Len(df.rows) > 0

\* C3: once the records are empty after the category filter, the identifier
\* filter or the allow-list filter, the run is in the informational terminal
\* state: no error is reported, no per-group or combined artifact and no archive
\* entry is written, and nothing was annotated, summarised or grouped.
C3_EmptyResultStops ==
    (uploaded_file /\ ~RequiredColumnAbsent /\ pc \notin {"start", "filter"}
        /\ QualifyingRows = {}) =>
        /\ pc = "nothing to export"
        /\ messages[Len(messages)][1] = "info"
        /\ ~SaidKind("error")
        /\ NoOutput
        /\ ~HasCol(missing_df, FlagUdise)
        /\ summary_df = <<>>
        /\ groups = <<>>

\* C3 witness: the records with a missing identifier were all removed by a usable
\* allow-list.
C3_Witness ==
    /\ pc = "nothing to export"
    /\ AllowListUsable
    /\ MissingIdentifierRows # {}
    /\ QualifyingRows = {}

\* The artifacts of the run: the files of the folder and the archive's entries.
Artifacts == {disk[n] : n \in DOMAIN disk} \cup {zip[n].ws : n \in 1..Len(zip)}

\* The records of the filtered set under grouping key k, by their places in the
\* upload, in order.
RecordsOfKey(k) ==
    SelectIdx(missing_df.src, {i \in 1..Len(missing_df.rows) : missing_df.rows[i][ColKey] = k})

\* The archive's entry of a name: the last one written under it.
ZipEntry(name) ==
    zip[SetMax({n \in 1..Len(zip) : zip[n].name = name})].ws

\* C4: after a successful run there is one per-group artifact for each distinct
\* grouping key of the filtered set, as many distinct per-group files and archive
\* entries as keys, each named by the sanitized key and holding exactly the
\* records of its group.
C4_OneArtifactPerKey ==
    pc = "done" =>
        LET keys == KeysOf(missing_df)
        IN  /\ \A k \in keys :
                /\ safe_filename(k) \in DOMAIN disk
                /\ disk[safe_filename(k)].src = RecordsOfKey(k)
                /\ \E n \in 2..Len(zip) :
                      zip[n].name = safe_filename(k) /\ zip[n].ws.src = RecordsOfKey(k)
            /\ Cardinality({safe_filename(k) : k \in keys}) = Cardinality(keys)
            /\ Cardinality({zip[n].name : n \in 2..Len(zip)}) = Cardinality(keys)

\* C5: once the output folder is there and the writer has succeeded, a combined
\* artifact under the reserved name is written, it is written before any
\* per-group artifact, and at the end of the run the artifact stored under the
\* reserved name holds all the filtered and annotated records.
C5_CombinedFirstAndComplete ==
    /\ pc \in {"write groups", "finish", "done"} => CombinedName \in DOMAIN disk
    /\ saved_files # <<>> => (saved_files[1] = CombinedName /\ zip[1].name = CombinedName)
    /\ pc = "done" =>
            /\ disk[CombinedName].src = missing_df.src
            /\ ZipEntry(CombinedName).src = missing_df.src

RECURSIVE SumCounts(_)
SumCounts(summary) ==
    IF summary = <<>> THEN 0 ELSE Head(summary).count + SumCounts(Tail(summary))

\* A grouping key is missing when it is absent or empty.
KeyMissing(k) == IsNA(k) \/ Strip(k[1]) = <<>>

\* C6: the counts of the summary add up to the number of filtered records, each
\* record is counted in exactly one group, and the records whose grouping key is
\* missing (absent or empty) are counted in one single group.
C6_SummaryCounts ==
    summary_df # <<>> =>
        /\ SumCounts(summary_df) = Len(missing_df.rows)
        /\ \A i \in 1..Len(missing_df.rows) :
              Cardinality({g \in 1..Len(summary_df) :
                              summary_df[g].key = missing_df.rows[i][ColKey]}) = 1
        /\ \A g \in 1..Len(summary_df) :
              summary_df[g].count = Len(RecordsOfKey(summary_df[g].key))
        /\ Cardinality({g \in 1..Len(summary_df) : KeyMissing(summary_df[g].key)}) <= 1

CountsDescend ==
    \A g \in 1..(Len(summary_df) - 1) : summary_df[g].count >= summary_df[g + 1].count

\* The place in the filtered records where key k is first met.
FirstSeen(k) == SetMin({i \in 1..Len(missing_df.rows) : missing_df.rows[i][ColKey] = k})

\* C7 (as amended): the summary holds each group of the filtered records once,
\* with its size, ordered by count descending; the order of groups with equal
\* counts is not fixed.
C7_CountDescending ==
    summary_df # <<>> =>
        /\ CountsDescend
        /\ Len(summary_df) = Cardinality(KeysOf(missing_df))
        /\ \A k \in KeysOf(missing_df) :
              \E g \in 1..Len(summary_df) :
                  summary_df[g] = [key |-> k, count |-> Len(RecordsOfKey(k))]

\* C7 witness: a summary with a larger group ahead of two groups of equal size.
C7_Witness ==
    /\ Len(summary_df) >= 3
    /\ summary_df[1].count > summary_df[2].count
    /\ summary_df[2].count = summary_df[3].count

\* C7 (as claimed): count descending, and groups of equal count in the order in
\* which their keys were first met in the filtered records.
C7_TiesInFirstSeenOrder ==
    summary_df # <<>> =>
        /\ CountsDescend
        /\ \A g, h \in 1..Len(summary_df) :
              (g < h /\ summary_df[g].count = summary_df[h].count)
                  => FirstSeen(summary_df[g].key) < FirstSeen(summary_df[h].key)

\* The flag column of each rule, the original column it implicates, and whether
\* a cell of the flag column says the rule found an issue.
Implicated ==
    (FlagUdise :> ColUdise) @@ (FlagSchool :> ColSchool) @@ (FlagDob :> ColDob)
    @@ (FlagPhone :> ColPhone) @@ (FlagCaste :> ColCaste) @@ (FlagConsent :> ColConsent)

SaysIssue(flag, cell) ==
    CASE flag \in {FlagUdise, FlagSchool, FlagConsent} -> cell = LblMissing
      [] flag = FlagDob -> cell = LblDobFlag
      [] flag = FlagPhone -> cell = LblPhoneInvalid
      [] flag = FlagCaste -> cell = LblCasteFlag

\* The flags active on a data row of a sheet.
ActiveFlags(header, row) == {f \in FlagColumns \cap Range(header) : SaysIssue(f, row[f])}

StyledCellsOfRow(ws, r) == {cell \in DOMAIN ws.fills : cell[1] = r}

\* C8: the tier of a record depends only on the number N of its active flags:
\* none of its cells is styled when N = 0, its styled cells are all yellow when
\* N is 1 or 2 and all red when N is 3 or more, and there are N of them.
C8_SeverityByCount ==
    (probe.op = "apply_issue_coloring" /\ probe.called) =>
        \A i \in 1..Len(probe.arg.rows) :
            LET n == Cardinality(ActiveFlags(probe.arg.columns, probe.arg.rows[i]))
                cells == StyledCellsOfRow(probe.result, i + 1)
            IN  /\ Cardinality(cells) = n
                /\ \A cell \in cells :
                      probe.result.fills[cell] = (IF n >= 3 THEN Red ELSE Yellow)

\* C8 witness: a coloured sheet with a record of exactly three active flags.
C8_Witness ==
    /\ probe.op = "apply_issue_coloring"
    /\ probe.called
    /\ \E i \in 1..Len(probe.arg.rows) :
          /\ Cardinality(ActiveFlags(probe.arg.columns, probe.arg.rows[i])) = 3
          /\ \E cell \in StyledCellsOfRow(probe.result, i + 1) :
                probe.result.fills[cell] = Red

\* C9: in every artifact a styled cell lies in a data row and in the original
\* column implicated by a flag active for that record; the header, the blank row
\* and the footer row carry no style.
C9_OnlyImplicatedCellsStyled ==
    \A ws \in Artifacts :
        \A cell \in DOMAIN ws.fills :
            /\ cell[1] >= 2
            /\ cell[1] <= Len(ws.body) - 1
            /\ cell[2] \in 1..Len(ws.header)
            /\ \E f \in ActiveFlags(ws.header, ws.body[cell[1] - 1]) :
                  Implicated[f] = ws.header[cell[2]]

\* C9 witness: a finished run with an artifact of two records styled in
\* different tiers.
C9_Witness ==
    /\ pc = "done"
    /\ \E ws \in Artifacts :
          \E c1, c2 \in DOMAIN ws.fills : ws.fills[c1] = Yellow /\ ws.fills[c2] = Red

SafeNameCalled == probe.op = "safe_filename" /\ probe.called

\* C10 (as amended): the sanitized name is at most 150 characters long, is never
\* empty, and holds only hyphens and the characters Python's \w accepts:
\* underscore, letters, digits and the other alphanumeric characters of Unicode
\* (such as U+00BD), with no whitespace left.
C10_SafeName ==
    SafeNameCalled =>
        /\ Len(probe.result) <= 150
        /\ probe.result # <<>>
        /\ \A i \in 1..Len(probe.result) :
              probe.result[i] \in Letters \cup Digits \cup OtherNumerics \cup {"_", "-"}

\* C10 witness: a name longer than the limit, cut to 150 characters.
C10_Witness ==
    /\ SafeNameCalled
    /\ ~IsNA(probe.arg)
    /\ Len(Strip(probe.arg[1])) > 150
    /\ Len(probe.result) = 150

\* C10 (as claimed): at most 150 characters, never empty, and only letters,
\* digits, underscore and hyphen.
C10_OnlyLettersDigits ==
    SafeNameCalled =>
        /\ Len(probe.result) <= 150
        /\ probe.result # <<>>
        /\ \A i \in 1..Len(probe.result) :
              probe.result[i] \in Letters \cup Digits \cup {"_", "-"}


\* ------------------------------------------------------------------ C11
\* The groups whose file the export loop has written so far.
WrittenGroups == 1..(IF pc \in {"write groups", "finish", "done", "crashed"} /\ next_group > 0
                     THEN next_group - 1 ELSE 0)

\* C11 (as claimed): the file of a group whose grouping key is absent is named
\* with the placeholder that safe_filename uses for an empty result.
C11_AbsentKeyNamedPlaceholder ==
    \A j \in WrittenGroups :
        IsNA(groups[j].key) => saved_files[j + 1] = UnknownProgramLaunch

\* ------------------------------------------------------------------ C12
\* The claim's reading of "1 Jan at the start": day 1, a separator, month 1, a
\* separator, each number with an optional leading zero and each separator any of
\* "-", "/" and space, from the first character of the trimmed text.
Separators == {"-", "/", " "}

BeginsWithFirstJan(s) ==
    \E a \in {0, 1}, b \in {0, 1} :
        /\ a + b + 4 <= Len(s)
        /\ (a = 1 => s[1] = "0")
        /\ s[1 + a] = "1"
        /\ s[2 + a] \in Separators
        /\ (b = 1 => s[3 + a] = "0")
        /\ s[3 + a + b] = "1"
        /\ s[4 + a + b] \in Separators

DobFlagCalled == probe.op = "DobFlag" /\ probe.called

\* C12 (as claimed): the birth-date rule gives the 1 Jan label exactly to the
\* values whose trimmed text begins with day 1 and month 1, either separator being
\* "-", "/" or a space, and the empty label to every other value.
C12_FlagIffBeginsWithFirstJan ==
    DobFlagCalled =>
        LET t == IF IsNA(probe.arg) THEN <<>> ELSE Strip(probe.arg[1])
        IN  /\ probe.result \in {LblDobFlag, LblEmpty}
            /\ probe.result = LblDobFlag <=> BeginsWithFirstJan(t)

\* ------------------------------------------------------------------ C13
\* The run ended without completing the export: a precondition error or an
\* output-folder failure, an empty result, or a failed write.
EndedWithoutExport == pc \in {"error", "nothing to export", "crashed"}

\* Every artifact of the run is in the folder's report and in the archive.
AllArtifactsWritten ==
    /\ Len(saved_files) = 1 + Len(groups)
    /\ Len(zip) = 1 + Len(groups)

\* C13: the run counter is one more than at the start once the run has written
\* every artifact and finished, and is what it was at the start in every other
\* state: while artifacts are still being written, and when the run ended in a
\* precondition error, an empty result, an output-folder failure or a failed
\* write.
C13_CounterOnceAfterExport ==
    /\ pc = "done" =>
          /\ get_run_counter(counter_file) = initial_run_count + 1
          /\ AllArtifactsWritten
    /\ pc # "done" => get_run_counter(counter_file) = initial_run_count
    /\ EndedWithoutExport => get_run_counter(counter_file) = initial_run_count

\* C13 witness: a finished run of two groups with the counter moved by one.
C13_Witness ==
    /\ pc = "done"
    /\ Len(groups) = 2
    /\ Len(zip) = 3
    /\ get_run_counter(counter_file) = initial_run_count + 1

\* ------------------------------------------------------------------ C14
FolderError == <<"error", "could not create output folder">>

\* C14: when the output folder cannot be created or accessed, the run is in the
\* reported error state with nothing written to the folder, no archive entry and
\* no download offered.
C14_FolderFailureAborts ==
    Said(FolderError) =>
        /\ pc = "error"
        /\ messages[Len(messages)] = FolderError
        /\ groups = <<>>
        /\ NoOutput

\* C14 witness: the folder failed for a run that had records to export.
C14_Witness ==
    /\ Said(FolderError)
    /\ pc = "error"
    /\ Len(missing_df.rows) > 0
    /\ summary_df # <<>>

\* ------------------------------------------------------------------ C15
\* The data rows of a sheet: its body without the blank row and the footer row.
DataRows(ws) == 1..(Len(ws.body) - 2)

\* The cell of data row r in the identifier column.
IdentifierCell(ws, r) ==
    <<r + 1, CHOOSE j \in 1..Len(ws.header) : ws.header[j] = ColUdise>>

\* C15: every data row of every artifact carries the identifier flag "Missing",
\* so at least one flag is active on it, it is never left without styling, and
\* its identifier cell is styled yellow or red.
C15_IdentifierCellAlwaysStyled ==
    \A ws \in Artifacts :
        \A r \in DataRows(ws) :
            /\ ws.body[r][FlagUdise] = LblMissing
            /\ Cardinality(ActiveFlags(ws.header, ws.body[r])) >= 1
            /\ StyledCellsOfRow(ws, r + 1) # {}
            /\ IdentifierCell(ws, r) \in DOMAIN ws.fills
            /\ ws.fills[IdentifierCell(ws, r)] \in {Yellow, Red}

\* C15 witness: a finished run with an artifact of two records, one whose
\* identifier is absent and one whose identifier is blank text, both styled.
C15_Witness ==
    /\ pc = "done"
    /\ \E ws \in Artifacts :
          \E r1, r2 \in DataRows(ws) :
              /\ IsNA(ws.body[r1][ColUdise])
              /\ ~IsNA(ws.body[r2][ColUdise])
              /\ IdentifierCell(ws, r1) \in DOMAIN ws.fills
              /\ IdentifierCell(ws, r2) \in DOMAIN ws.fills

=========================================================================
